---------------------------- MODULE Spec2Model ----------------------------
(***************************************************************************)
(* A model of the ESIL tokenizer of esil-rs (src/lexer.rs).                *)
(*                                                                         *)
(* Tokenizer::tokenize splits its input on ',' and extends the output      *)
(* vector with the tokens of one match expression per lexeme.  A lexeme    *)
(* is a sequence of characters; a character is a one-element string, and   *)
(* the two non-ASCII characters of the model are written by code point.    *)
(* A u64 is four 16-bit limbs, most significant first, so that the checked *)
(* arithmetic of the integer parsers overflows where the code's does.      *)
(***************************************************************************)
EXTENDS Integers, Sequences, FiniteSets, TLC

VARIABLES esil, lexemes, idx, tokens, pc

vars == <<esil, lexemes, idx, tokens, pc>>

---------------------------------------------------------------------------
(* Bounds of the model.                                                    *)

\* Longest generated lexeme over GenAlpha, and longest bit-index suffix.
MaxLen == 3
\* Most lexemes of a multi-lexeme input.
MaxLexemes == 3
\* Longest run of one digit (17 hexadecimal digits exceed 64 bits).
MaxDigits == 17

---------------------------------------------------------------------------
(* enum Token                                                              *)

EInterrupt == [k |-> "EInterrupt"]
ECmp == [k |-> "ECmp"]
ELt == [k |-> "ELt"]
EGt == [k |-> "EGt"]
EEq == [k |-> "EEq"]
EIf == [k |-> "EIf"]
ELsl == [k |-> "ELsl"]
ELsr == [k |-> "ELsr"]
ERor == [k |-> "ERor"]
ERol == [k |-> "ERol"]
EAnd == [k |-> "EAnd"]
EOr == [k |-> "EOr"]
ENop == [k |-> "ENop"]
ENeg == [k |-> "ENeg"]
EMul == [k |-> "EMul"]
EXor == [k |-> "EXor"]
EAdd == [k |-> "EAdd"]
ESub == [k |-> "ESub"]
EDiv == [k |-> "EDiv"]
EMod == [k |-> "EMod"]
EPoke(b) == [k |-> "EPoke", bits |-> b]
EPeek(b) == [k |-> "EPeek", bits |-> b]
EDump == [k |-> "EDump"]
EPop == [k |-> "EPop"]
ETodo == [k |-> "ETodo"]
EGoto == [k |-> "EGoto"]
EBreak == [k |-> "EBreak"]
EClear == [k |-> "EClear"]
EDup == [k |-> "EDup"]
ETrap == [k |-> "ETrap"]
IZero(b) == [k |-> "IZero", bits |-> b]
ICarry(b) == [k |-> "ICarry", bits |-> b]
IParity(b) == [k |-> "IParity", bits |-> b]
IOverflow(b) == [k |-> "IOverflow", bits |-> b]
ISign(b) == [k |-> "ISign", bits |-> b]
IBorrow(b) == [k |-> "IBorrow", bits |-> b]
ISize(b) == [k |-> "ISize", bits |-> b]
IAddress(b) == [k |-> "IAddress", bits |-> b]
EConstant(v) == [k |-> "EConstant", v |-> v]
EIdentifier(s) == [k |-> "EIdentifier", s |-> s]
EInvalid == [k |-> "EInvalid"]
PCopy(n) == [k |-> "PCopy", n |-> n]
PPop(n) == [k |-> "PPop", n |-> n]

ESIL_INTERNAL_PREFIX == "$"

---------------------------------------------------------------------------
(* Characters and integers.                                                *)

\* Width of u64 (EConstant) and of u8 (the bit index) in bits.
U64Bits == 64
U8Bits == 8
\* One limb of the model's u64: 64 bits are four limbs of 16.
Limb == 2 ^ (U64Bits \div 4)

\* A small number as a u64.
U64(n) == <<0, 0, n \div Limb, n % Limb>>

\* char::len_utf8: the bytes a character takes in a str.
Utf8Len(c) == IF c = "U+00E9" THEN 2 ELSE IF c = "U+20AC" THEN 3 ELSE 1

RECURSIVE ByteLen(_)
\* str::len: the length of a str in bytes.
ByteLen(t) == IF t = <<>> THEN 0 ELSE Utf8Len(Head(t)) + ByteLen(Tail(t))

\* str::is_char_boundary: byte offset n starts a character or ends the str.
IsCharBoundary(t, n) == \E j \in 0..Len(t) : ByteLen(SubSeq(t, 1, j)) = n

\* &t[n..] where n is a character boundary.
SliceFrom(t, n) ==
    LET j == CHOOSE i \in 0..Len(t) : ByteLen(SubSeq(t, 1, i)) = n
    IN  SubSeq(t, j + 1, Len(t))

\* char::to_digit: the value of a digit character.
DigitValue ==
    [c \in {"0", "1", "2", "3", "4", "5", "6", "7", "8", "9",
            "a", "b", "c", "d", "e", "f", "A", "B", "C", "D", "E", "F"} |->
        CASE c = "0" -> 0 [] c = "1" -> 1 [] c = "2" -> 2 [] c = "3" -> 3
          [] c = "4" -> 4 [] c = "5" -> 5 [] c = "6" -> 6 [] c = "7" -> 7
          [] c = "8" -> 8 [] c = "9" -> 9
          [] c \in {"a", "A"} -> 10 [] c \in {"b", "B"} -> 11
          [] c \in {"c", "C"} -> 12 [] c \in {"d", "D"} -> 13
          [] c \in {"e", "E"} -> 14 [] c \in {"f", "F"} -> 15]

IsDigit(c, radix) == c \in DOMAIN DigitValue /\ DigitValue[c] < radix

Ok(v) == [ok |-> TRUE, v |-> v]
Err == [ok |-> FALSE]

\* u64::checked_mul by a radix: None when the product leaves 64 bits.
CheckedMul(v, radix) ==
    LET p4 == v[4] * radix
        p3 == v[3] * radix + p4 \div Limb
        p2 == v[2] * radix + p3 \div Limb
        p1 == v[1] * radix + p2 \div Limb
    IN  IF p1 \div Limb > 0 THEN Err
        ELSE Ok(<<p1 % Limb, p2 % Limb, p3 % Limb, p4 % Limb>>)

\* u64::checked_add of a digit: None when the sum leaves 64 bits.
CheckedAdd(v, d) ==
    LET s4 == v[4] + d
        s3 == v[3] + s4 \div Limb
        s2 == v[2] + s3 \div Limb
        s1 == v[1] + s2 \div Limb
    IN  IF s1 \div Limb > 0 THEN Err
        ELSE Ok(<<s1 % Limb, s2 % Limb, s3 % Limb, s4 % Limb>>)

RECURSIVE Accumulate(_, _, _)
\* The digit loop of u64::from_str_radix: result = result * radix + digit,
\* an error at the first character that is no digit and at overflow.
Accumulate(digits, radix, acc) ==
    IF digits = <<>> THEN Ok(acc)
    ELSE IF ~IsDigit(Head(digits), radix) THEN Err
    ELSE LET m == CheckedMul(acc, radix)
         IN  IF ~m.ok THEN Err
             ELSE LET a == CheckedAdd(m.v, DigitValue[Head(digits)])
                  IN  IF ~a.ok THEN Err
                      ELSE Accumulate(Tail(digits), radix, a.v)

\* u64::from_str_radix: empty input and a lone sign are errors, a leading
\* '+' is skipped, '-' is no digit of an unsigned type.
FromStrRadix(src, radix) ==
    IF src = <<>> THEN Err
    ELSE IF Len(src) = 1 /\ src[1] \in {"+", "-"} THEN Err
    ELSE Accumulate(IF src[1] = "+" THEN Tail(src) ELSE src, radix, U64(0))

RECURSIVE AccumulateU8(_, _)
\* The same loop at u8: overflow above 2^8 - 1.
AccumulateU8(digits, acc) ==
    IF digits = <<>> THEN Ok(acc)
    ELSE IF ~IsDigit(Head(digits), 10) THEN Err
    ELSE IF acc * 10 + DigitValue[Head(digits)] > 2 ^ U8Bits - 1 THEN Err
    ELSE AccumulateU8(Tail(digits), acc * 10 + DigitValue[Head(digits)])

\* str::parse::<u8>.
ParseU8(src) ==
    IF src = <<>> THEN Err
    ELSE IF Len(src) = 1 /\ src[1] \in {"+", "-"} THEN Err
    ELSE AccumulateU8(IF src[1] = "+" THEN Tail(src) ELSE src, 0)

RECURSIVE TrimLeftMatches0x(_)
\* str::trim_left_matches("0x"): every leading repetition of "0x" removed.
TrimLeftMatches0x(t) ==
    IF Len(t) >= 2 /\ t[1] = "0" /\ t[2] = "x"
    THEN TrimLeftMatches0x(SubSeq(t, 3, Len(t)))
    ELSE t

RECURSIVE SplitFrom(_, _)
\* str::split(","): the pieces between commas, empty pieces kept; cur is
\* the piece being read.
SplitFrom(s, cur) ==
    IF s = <<>> THEN <<cur>>
    ELSE IF Head(s) = "," THEN <<cur>> \o SplitFrom(Tail(s), <<>>)
    ELSE SplitFrom(Tail(s), Append(cur, Head(s)))

\* Split as str::split_terminator: an empty last piece is dropped.
SplitTerminator(s) ==
    LET ps == SplitFrom(s, <<>>)
    IN  IF ps[Len(ps)] = <<>> THEN SubSeq(ps, 1, Len(ps) - 1) ELSE ps

Split(s) == SplitFrom(s, <<>>)

---------------------------------------------------------------------------
(* The arms of the match expression, in source order.                      *)

\* lexer.rs lines 74-124
BasicArms ==
    (<<"$">> :> <<EInterrupt>>)
 @@ (<<"=", "=">> :> <<ECmp>>)
 @@ (<<"<">> :> <<ELt>>)
 @@ (<<">">> :> <<EGt>>)
 @@ (<<"<", "=">> :> <<PCopy(2), ELt, PPop(2), ECmp, EOr>>)
 @@ (<<">", "=">> :> <<PCopy(2), EGt, PPop(2), ECmp, EOr>>)
 @@ (<<"?", "{">> :> <<EIf>>)
 @@ (<<"<", "<">> :> <<ELsl>>)
 @@ (<<"<", "<", "=">> :> <<PCopy(2), ELsl, PPop(1), EPop, EEq>>)
 @@ (<<">", ">">> :> <<ELsr>>)
 @@ (<<">", ">", "=">> :> <<PCopy(2), ELsr, PPop(1), EPop, EEq>>)
 @@ (<<">", ">", ">">> :> <<ERor>>)
 @@ (<<"<", "<", "<">> :> <<ERol>>)
 @@ (<<"&">> :> <<EAnd>>)
 @@ (<<"&", "=">> :> <<PCopy(2), EAnd, PPop(1), EPop, EEq>>)
 @@ (<<"}">> :> <<ENop>>)
 @@ (<<"|">> :> <<EOr>>)
 @@ (<<"|", "=">> :> <<PCopy(2), EOr, PPop(1), EPop, EEq>>)
 @@ (<<"!">> :> <<ENeg>>)
 @@ (<<"!", "=">> :> <<PCopy(1), ENeg, EEq>>)
 @@ (<<"=">> :> <<EEq>>)
 @@ (<<"*">> :> <<EMul>>)
 @@ (<<"*", "=">> :> <<PCopy(2), EMul, PPop(1), EPop, EEq>>)
 @@ (<<"^">> :> <<EXor>>)
 @@ (<<"^", "=">> :> <<PCopy(2), EXor, PPop(1), EPop, EEq>>)
 @@ (<<"+">> :> <<EAdd>>)
 @@ (<<"+", "=">> :> <<PCopy(2), EAdd, PPop(1), EPop, EEq>>)
 @@ (<<"+", "+">> :> <<PPop(1), EConstant(U64(1)), EAdd>>)
 @@ (<<"+", "+", "=">> :> <<PCopy(1), EConstant(U64(1)), EAdd, PPop(1), EEq>>)
 @@ (<<"-">> :> <<ESub>>)
 @@ (<<"-", "=">> :> <<PCopy(2), ESub, PPop(1), EPop, EEq>>)
 @@ (<<"-", "-">> :> <<PPop(1), EConstant(U64(1)), ESub>>)
 @@ (<<"-", "-", "=">> :> <<PCopy(1), EConstant(U64(1)), ESub, PPop(1), EEq>>)
 @@ (<<"/">> :> <<EDiv>>)
 @@ (<<"/", "=">> :> <<PCopy(2), EDiv, PPop(1), EPop, EEq>>)
 @@ (<<"%">> :> <<EMod>>)
 @@ (<<"%", "=">> :> <<PCopy(2), EMod, PPop(1), EPop, EEq>>)

\* lexer.rs lines 125-129
PokeArms ==
    (<<"=", "[", "]">> :> <<EPoke(64)>>)
 @@ (<<"=", "[", "1", "]">> :> <<EPoke(8)>>)
 @@ (<<"=", "[", "2", "]">> :> <<EPoke(16)>>)
 @@ (<<"=", "[", "4", "]">> :> <<EPoke(32)>>)
 @@ (<<"=", "[", "8", "]">> :> <<EPoke(64)>>)

\* lexer.rs lines 130-139
OrMemArms ==
    (<<"|", "=", "[", "]">> :> <<PCopy(1), EPeek(64), EOr, PPop(1), EPop, EPoke(64)>>)
 @@ (<<"|", "=", "[", "1", "]">> :> <<PCopy(1), EPeek(8), EOr, PPop(1), EPop, EPoke(8)>>)
 @@ (<<"|", "=", "[", "2", "]">> :> <<PCopy(1), EPeek(16), EOr, PPop(1), EPop, EPoke(16)>>)
 @@ (<<"|", "=", "[", "4", "]">> :> <<PCopy(1), EPeek(32), EOr, PPop(1), EPop, EPoke(32)>>)
 @@ (<<"|", "=", "[", "8", "]">> :> <<PCopy(1), EPeek(64), EOr, PPop(1), EPop, EPoke(64)>>)

\* lexer.rs lines 140-149
XorMemArms ==
    (<<"^", "=", "[", "]">> :> <<PCopy(1), EPeek(64), EXor, PPop(1), EPop, EPoke(64)>>)
 @@ (<<"^", "=", "[", "1", "]">> :> <<PCopy(1), EPeek(8), EXor, PPop(1), EPop, EPoke(8)>>)
 @@ (<<"^", "=", "[", "2", "]">> :> <<PCopy(1), EPeek(16), EXor, PPop(1), EPop, EPoke(16)>>)
 @@ (<<"^", "=", "[", "4", "]">> :> <<PCopy(1), EPeek(32), EXor, PPop(1), EPop, EPoke(32)>>)
 @@ (<<"^", "=", "[", "8", "]">> :> <<PCopy(1), EPeek(64), EXor, PPop(1), EPop, EPoke(64)>>)

\* lexer.rs lines 150-159
AndMemArms ==
    (<<"&", "=", "[", "]">> :> <<PCopy(1), EPeek(64), EAnd, PPop(1), EPop, EPoke(64)>>)
 @@ (<<"&", "=", "[", "1", "]">> :> <<PCopy(1), EPeek(8), EAnd, PPop(1), EPop, EPoke(8)>>)
 @@ (<<"&", "=", "[", "2", "]">> :> <<PCopy(1), EPeek(16), EAnd, PPop(1), EPop, EPoke(16)>>)
 @@ (<<"&", "=", "[", "4", "]">> :> <<PCopy(1), EPeek(32), EAnd, PPop(1), EPop, EPoke(32)>>)
 @@ (<<"&", "=", "[", "8", "]">> :> <<PCopy(1), EPeek(64), EAnd, PPop(1), EPop, EPoke(64)>>)

\* lexer.rs lines 160-169
AddMemArms ==
    (<<"+", "=", "[", "]">> :> <<PCopy(1), EPeek(64), EAdd, PPop(1), EPop, EPoke(64)>>)
 @@ (<<"+", "=", "[", "1", "]">> :> <<PCopy(1), EPeek(8), EAdd, PPop(1), EPop, EPoke(8)>>)
 @@ (<<"+", "=", "[", "2", "]">> :> <<PCopy(1), EPeek(16), EAdd, PPop(1), EPop, EPoke(16)>>)
 @@ (<<"+", "=", "[", "4", "]">> :> <<PCopy(1), EPeek(32), EAdd, PPop(1), EPop, EPoke(32)>>)
 @@ (<<"+", "=", "[", "8", "]">> :> <<PCopy(1), EPeek(64), EAdd, PPop(1), EPop, EPoke(64)>>)

\* SubMemArms with the peek of "-=[4]" copied from the 8-byte arm.
SubMemArmsWide ==
    (<<"-", "=", "[", "]">> :> <<PCopy(1), EPeek(64), ESub, PPop(1), EPop, EPoke(64)>>)
 @@ (<<"-", "=", "[", "1", "]">> :> <<PCopy(1), EPeek(8), ESub, PPop(1), EPop, EPoke(8)>>)
 @@ (<<"-", "=", "[", "2", "]">> :> <<PCopy(1), EPeek(16), ESub, PPop(1), EPop, EPoke(16)>>)
 @@ (<<"-", "=", "[", "4", "]">> :> <<PCopy(1), EPeek(64), ESub, PPop(1), EPop, EPoke(32)>>)
 @@ (<<"-", "=", "[", "8", "]">> :> <<PCopy(1), EPeek(64), ESub, PPop(1), EPop, EPoke(64)>>)

\* lexer.rs lines 170-179
SubMemArms ==
    (<<"-", "=", "[", "]">> :> <<PCopy(1), EPeek(64), ESub, PPop(1), EPop, EPoke(64)>>)
 @@ (<<"-", "=", "[", "1", "]">> :> <<PCopy(1), EPeek(8), ESub, PPop(1), EPop, EPoke(8)>>)
 @@ (<<"-", "=", "[", "2", "]">> :> <<PCopy(1), EPeek(16), ESub, PPop(1), EPop, EPoke(16)>>)
 @@ (<<"-", "=", "[", "4", "]">> :> <<PCopy(1), EPeek(32), ESub, PPop(1), EPop, EPoke(32)>>)
 @@ (<<"-", "=", "[", "8", "]">> :> <<PCopy(1), EPeek(64), ESub, PPop(1), EPop, EPoke(64)>>)

\* lexer.rs lines 180-189
ModMemArms ==
    (<<"%", "=", "[", "]">> :> <<PCopy(1), EPeek(64), EMod, PPop(1), EPop, EPoke(64)>>)
 @@ (<<"%", "=", "[", "1", "]">> :> <<PCopy(1), EPeek(8), EMod, PPop(1), EPop, EPoke(8)>>)
 @@ (<<"%", "=", "[", "2", "]">> :> <<PCopy(1), EPeek(16), EMod, PPop(1), EPop, EPoke(16)>>)
 @@ (<<"%", "=", "[", "4", "]">> :> <<PCopy(1), EPeek(32), EMod, PPop(1), EPop, EPoke(32)>>)
 @@ (<<"%", "=", "[", "8", "]">> :> <<PCopy(1), EPeek(64), EMod, PPop(1), EPop, EPoke(64)>>)

\* lexer.rs lines 190-199
DivMemArms ==
    (<<"/", "=", "[", "]">> :> <<PCopy(1), EPeek(64), EDiv, PPop(1), EPop, EPoke(64)>>)
 @@ (<<"/", "=", "[", "1", "]">> :> <<PCopy(1), EPeek(8), EDiv, PPop(1), EPop, EPoke(8)>>)
 @@ (<<"/", "=", "[", "2", "]">> :> <<PCopy(1), EPeek(16), EDiv, PPop(1), EPop, EPoke(16)>>)
 @@ (<<"/", "=", "[", "4", "]">> :> <<PCopy(1), EPeek(32), EDiv, PPop(1), EPop, EPoke(32)>>)
 @@ (<<"/", "=", "[", "8", "]">> :> <<PCopy(1), EPeek(64), EDiv, PPop(1), EPop, EPoke(64)>>)

\* lexer.rs lines 200-209
MulMemArms ==
    (<<"*", "=", "[", "]">> :> <<PCopy(1), EPeek(64), EMul, PPop(1), EPop, EPoke(64)>>)
 @@ (<<"*", "=", "[", "1", "]">> :> <<PCopy(1), EPeek(8), EMul, PPop(1), EPop, EPoke(8)>>)
 @@ (<<"*", "=", "[", "2", "]">> :> <<PCopy(1), EPeek(16), EMul, PPop(1), EPop, EPoke(16)>>)
 @@ (<<"*", "=", "[", "4", "]">> :> <<PCopy(1), EPeek(32), EMul, PPop(1), EPop, EPoke(32)>>)
 @@ (<<"*", "=", "[", "8", "]">> :> <<PCopy(1), EPeek(64), EMul, PPop(1), EPop, EPoke(64)>>)

\* IncMemArms with the pop-duplicate of "++=[2]" ahead of the operation.
IncMemArmsEarlyPop ==
    (<<"+", "+", "=", "[", "]">> :> <<PCopy(1), EPeek(64), EConstant(U64(1)), EAdd, PPop(1), EPoke(64)>>)
 @@ (<<"+", "+", "=", "[", "1", "]">> :> <<PCopy(1), EPeek(8), EConstant(U64(1)), EAdd, PPop(1), EPoke(8)>>)
 @@ (<<"+", "+", "=", "[", "2", "]">> :> <<PCopy(1), EPeek(16), PPop(1), EConstant(U64(1)), EAdd, EPoke(16)>>)
 @@ (<<"+", "+", "=", "[", "4", "]">> :> <<PCopy(1), EPeek(32), EConstant(U64(1)), EAdd, PPop(1), EPoke(32)>>)
 @@ (<<"+", "+", "=", "[", "8", "]">> :> <<PCopy(1), EPeek(64), EConstant(U64(1)), EAdd, PPop(1), EPoke(64)>>)

\* lexer.rs lines 210-224
IncMemArms ==
    (<<"+", "+", "=", "[", "]">> :> <<PCopy(1), EPeek(64), EConstant(U64(1)), EAdd, PPop(1), EPoke(64)>>)
 @@ (<<"+", "+", "=", "[", "1", "]">> :> <<PCopy(1), EPeek(8), EConstant(U64(1)), EAdd, PPop(1), EPoke(8)>>)
 @@ (<<"+", "+", "=", "[", "2", "]">> :> <<PCopy(1), EPeek(16), EConstant(U64(1)), EAdd, PPop(1), EPoke(16)>>)
 @@ (<<"+", "+", "=", "[", "4", "]">> :> <<PCopy(1), EPeek(32), EConstant(U64(1)), EAdd, PPop(1), EPoke(32)>>)
 @@ (<<"+", "+", "=", "[", "8", "]">> :> <<PCopy(1), EPeek(64), EConstant(U64(1)), EAdd, PPop(1), EPoke(64)>>)

\* lexer.rs lines 225-244
DecMemArms ==
    (<<"-", "-", "=", "[", "]">> :> <<EConstant(U64(1)), PPop(1), PCopy(1), EPeek(64), ESub, PPop(1), EPoke(64)>>)
 @@ (<<"-", "-", "=", "[", "1", "]">> :> <<EConstant(U64(1)), PPop(1), PCopy(1), EPeek(8), ESub, PPop(1), EPoke(8)>>)
 @@ (<<"-", "-", "=", "[", "2", "]">> :> <<EConstant(U64(1)), PPop(1), PCopy(1), EPeek(16), ESub, PPop(1), EPoke(16)>>)
 @@ (<<"-", "-", "=", "[", "4", "]">> :> <<EConstant(U64(1)), PPop(1), PCopy(1), EPeek(32), ESub, PPop(1), EPoke(32)>>)
 @@ (<<"-", "-", "=", "[", "8", "]">> :> <<EConstant(U64(1)), PPop(1), PCopy(1), EPeek(64), ESub, PPop(1), EPoke(64)>>)

\* PeekArms with the widths of "[2]" and "[4]" exchanged.
PeekArmsExchanged ==
    (<<"[", "]">> :> <<EPeek(64)>>)
 @@ (<<"[", "*", "]">> :> <<EPeek(64)>>)
 @@ (<<"=", "[", "*", "]">> :> <<EPoke(64)>>)
 @@ (<<"[", "1", "]">> :> <<EPeek(8)>>)
 @@ (<<"[", "2", "]">> :> <<EPeek(32)>>)
 @@ (<<"[", "4", "]">> :> <<EPeek(16)>>)
 @@ (<<"[", "8", "]">> :> <<EPeek(64)>>)

\* lexer.rs lines 245-251
PeekArms ==
    (<<"[", "]">> :> <<EPeek(64)>>)
 @@ (<<"[", "*", "]">> :> <<EPeek(64)>>)
 @@ (<<"=", "[", "*", "]">> :> <<EPoke(64)>>)
 @@ (<<"[", "1", "]">> :> <<EPeek(8)>>)
 @@ (<<"[", "2", "]">> :> <<EPeek(16)>>)
 @@ (<<"[", "4", "]">> :> <<EPeek(32)>>)
 @@ (<<"[", "8", "]">> :> <<EPeek(64)>>)

\* lexer.rs lines 252-259
KeywordArms ==
    (<<"S", "T", "A", "C", "K">> :> <<EDump>>)
 @@ (<<"P", "O", "P">> :> <<EPop>>)
 @@ (<<"T", "O", "D", "O">> :> <<ETodo>>)
 @@ (<<"G", "O", "T", "O">> :> <<EGoto>>)
 @@ (<<"B", "R", "E", "A", "K">> :> <<EBreak>>)
 @@ (<<"C", "L", "E", "A", "R">> :> <<EClear>>)
 @@ (<<"D", "U", "P">> :> <<EDup>>)
 @@ (<<"T", "R", "A", "P">> :> <<ETrap>>)


\* The arms of lines 74-259 as one table from lexeme to expansion.
MatchArms ==
    BasicArms @@ PokeArms @@ OrMemArms @@ XorMemArms @@ AndMemArms
    @@ AddMemArms @@ SubMemArms @@ ModMemArms @@ DivMemArms @@ MulMemArms
    @@ IncMemArms @@ DecMemArms @@ PeekArms @@ KeywordArms

---------------------------------------------------------------------------
(* The default arm: internal variables, numbers, identifiers.              *)

\* t.chars().nth(n).unwrap_or('\0'), n counted from 0.
CharAt(t, n) == IF n < Len(t) THEN t[n + 1] ELSE "NUL"

\* t[2..] aborts unless byte offset 2 is a character boundary; it is
\* evaluated only when t.len() >= 3.
SlicePanics(t) == ByteLen(t) >= 3 /\ ~IsCharBoundary(t, 2)

\* let bit = if t.len() < 3 { 0 } else { t[2..].parse::<u8>().unwrap_or(0) }
BitIndex(t) ==
    IF ByteLen(t) < 3 THEN 0
    ELSE LET r == ParseU8(SliceFrom(t, 2))
         IN  IF r.ok THEN r.v ELSE 0

\* match t.chars().nth(1).unwrap_or('\0') { ... }
InternalVar(c, bit) ==
    CASE c = "$" -> IAddress(bit)
      [] c = "z" -> IZero(bit)
      [] c = "b" -> IBorrow(bit)
      [] c = "c" -> ICarry(bit)
      [] c = "p" -> IParity(bit)
      [] c = "r" -> ISize(bit)
      [] c = "o" -> IOverflow(bit)
      [] c = "s" -> ISign(bit)
      [] OTHER -> EInvalid

\* ParseHex with the radix of the second attempt.
ParseHexRadix10(t) == FromStrRadix(TrimLeftMatches0x(t), 10)

\* Num::from_str_radix(t.trim_left_matches("0x"), 16)
ParseHex(t) == FromStrRadix(TrimLeftMatches0x(t), 16)

\* t.parse::<u64>()
ParseDec(t) == FromStrRadix(t, 10)

\* The default arm.  arm names the branch taken, out the vector it yields.
Fallback(t) ==
    IF t # <<>> /\ t[1] = ESIL_INTERNAL_PREFIX
    THEN IF SlicePanics(t)
         THEN [arm |-> "panic", out |-> <<>>]
         ELSE [arm |-> "internal",
               out |-> <<InternalVar(CharAt(t, 1), BitIndex(t))>>]
    ELSE IF ParseHex(t).ok
         THEN [arm |-> "hex", out |-> <<EConstant(ParseHex(t).v)>>]
    ELSE IF ParseDec(t).ok
         THEN [arm |-> "dec", out |-> <<EConstant(ParseDec(t).v)>>]
    ELSE [arm |-> "identifier", out |-> <<EIdentifier(t)>>]

\* Match with the arm of ">>=" copied from "<<=" and left unchanged.
MatchShiftCopied(t) ==
    IF t = <<">", ">", "=">>
    THEN [arm |-> "opcode", out |-> <<PCopy(2), ELsl, PPop(1), EPop, EEq>>]
    ELSE IF t \in DOMAIN MatchArms
    THEN [arm |-> "opcode", out |-> MatchArms[t]]
    ELSE Fallback(t)

\* Match with "!=" as an inequality test: it ends in the opcode of "==".
MatchNotEqualCmp(t) ==
    IF t = <<"!", "=">>
    THEN [arm |-> "opcode", out |-> <<PCopy(1), ENeg, ECmp>>]
    ELSE IF t \in DOMAIN MatchArms
    THEN [arm |-> "opcode", out |-> MatchArms[t]]
    ELSE Fallback(t)

\* The whole match expression on one lexeme.
Match(t) ==
    IF t \in DOMAIN MatchArms
    THEN [arm |-> "opcode", out |-> MatchArms[t]]
    ELSE Fallback(t)

\* Extend that keeps only the tokens of the last lexeme.
ExtendOverwrites(ts, v) == v

\* tokens.extend(v)
Extend(ts, v) == ts \o v

RECURSIVE TokenizeFrom(_, _)
\* The loop over the lexemes ls, acc the tokens so far: the vector
\* returned, or an error where the call aborts.
TokenizeFrom(ls, acc) ==
    IF ls = <<>> THEN Ok(acc)
    ELSE IF Match(Head(ls)).arm = "panic" THEN Err
    ELSE TokenizeFrom(Tail(ls), Extend(acc, Match(Head(ls)).out))

\* Tokenizer::tokenize as a function of its input.
Tokenize(s) == TokenizeFrom(Split(s), <<>>)

---------------------------------------------------------------------------
(* The inputs of the model.                                                *)

\* Every sequence over A of length at most n.
Strings(A, n) == UNION {[1..m -> A] : m \in 0..n}

RECURSIVE Join(_)
\* The lexemes of ls with a comma between neighbours.
Join(ls) ==
    IF Len(ls) = 1 THEN ls[1] ELSE ls[1] \o <<",">> \o Join(Tail(ls))

Repeat(c, n) == [i \in 1..n |-> c]

GenAlpha == {"$", "z", "0", "1", "9", "a", "f", "x", "+", "-", "=", "U+00E9"}

BitAlpha == {"0", "1", "2", "5", "6", "+", "U+00E9"}

KindChars == {"$", "z", "b", "c", "p", "r", "o", "s"}

\* Short lexemes of every shape over a small alphabet.
GenLexemes == Strings(GenAlpha, MaxLen)

\* The marker, a kind character (or none of them) and a bit-index suffix.
InternalLexemes ==
    {<<"$", c>> \o s : c \in KindChars \cup {"q", "9", "U+20AC"},
                       s \in Strings(BitAlpha, MaxLen)}

\* Runs of one digit, bare and behind "0x", up to past 64 bits.
DigitRuns ==
    {p \o Repeat(d, n) : p \in {<<>>, <<"0", "x">>, <<"+">>}, d \in {"0", "1", "9", "f", "F"},
                         n \in 1..MaxDigits}

\* 2^64 - 1 and 2^64 in base 10 and base 16, and other numbers.
BoundaryLexemes ==
    { <<"1","8","4","4","6","7","4","4","0","7","3","7","0","9","5","5","1","6","1","5">>,
      <<"1","8","4","4","6","7","4","4","0","7","3","7","0","9","5","5","1","6","1","6">>,
      <<"f","f","f","f","f","f","f","f","f","f","f","f","f","f","f","f">>,
      <<"1","0","0","0","0","0","0","0","0","0","0","0","0","0","0","0","0">>,
      <<"0","x","d","e","a","d","B","E","E","F">>,
      <<"1","2","3","4","5","6","7","8","9">>,
      <<"3">>, <<"4">>, <<"1","0">>, <<"2","5","5">>, <<"e","a","x">>,
      <<"r","a","x">>, <<"-","1">>, <<"0","x">>, <<"0","x","0","x","1","0">> }

\* The memory forms of the two shift families, which the table lacks.
ShiftMemLexemes ==
    {f \o w : f \in {<<"<", "<", "=">>, <<">", ">", "=">>},
              w \in {<<"[", "]">>, <<"[", "1", "]">>, <<"[", "2", "]">>,
                     <<"[", "4", "]">>, <<"[", "8", "]">>}}

\* Inputs of one lexeme.
SingleInputs ==
    DOMAIN MatchArms \cup ShiftMemLexemes \cup GenLexemes
    \cup InternalLexemes \cup DigitRuns \cup BoundaryLexemes

\* The lexemes that inputs of several lexemes are made of.
CtxLexemes ==
    { <<>>, <<"e","a","x">>, <<"3">>, <<"+","=">>, <<"$","z","3">>,
      <<"$","U+00E9">> }

\* The ten in-place register operators.
InPlaceLexemes ==
    { <<"+","=">>, <<"-","=">>, <<"*","=">>, <<"/","=">>, <<"%","=">>,
      <<"&","=">>, <<"|","=">>, <<"^","=">>, <<"<","<","=">>, <<">",">","=">> }

\* Every input of 2..MaxLexemes lexemes of CtxLexemes, and every in-place
\* operator between two of them.
MultiInputs ==
    {Join(ls) : ls \in UNION {[1..m -> CtxLexemes] : m \in 2..MaxLexemes}}
    \cup {Join(<<p, o, q>>) : p \in CtxLexemes, o \in InPlaceLexemes, q \in CtxLexemes}

Inputs == SingleInputs \cup MultiInputs

---------------------------------------------------------------------------
(* Tokenizer::tokenize as a state machine.                                 *)

Init ==
    /\ esil \in Inputs
    /\ lexemes = <<>>
    /\ idx = 0
    /\ tokens = <<>>
    /\ pc = "start"

\* let mut tokens = Vec::new(); esil.as_ref().split(",")
Begin ==
    /\ pc = "start"
    /\ lexemes' = Split(esil)
    /\ idx' = 1
    /\ tokens' = <<>>
    /\ pc' = "loop"
    /\ UNCHANGED esil

\* The loop body runs on lexemes[idx].
Looping == pc = "loop" /\ idx <= Len(lexemes)

\* tokens.extend(v), and the iterator moves on.
Push(v) ==
    /\ tokens' = Extend(tokens, v)
    /\ idx' = idx + 1
    /\ UNCHANGED <<esil, lexemes, pc>>

\* An arm of the opcode table.
MatchOpcode ==
    /\ Looping
    /\ Match(lexemes[idx]).arm = "opcode"
    /\ Push(Match(lexemes[idx]).out)

\* An internal variable, or EInvalid.
MatchInternal ==
    /\ Looping
    /\ Match(lexemes[idx]).arm = "internal"
    /\ Push(Match(lexemes[idx]).out)

\* A constant read in base 16.
MatchHex ==
    /\ Looping
    /\ Match(lexemes[idx]).arm = "hex"
    /\ Push(Match(lexemes[idx]).out)

\* A constant read in base 10.
MatchDec ==
    /\ Looping
    /\ Match(lexemes[idx]).arm = "dec"
    /\ Push(Match(lexemes[idx]).out)

\* An identifier.
MatchIdentifier ==
    /\ Looping
    /\ Match(lexemes[idx]).arm = "identifier"
    /\ Push(Match(lexemes[idx]).out)

\* t[2..] aborts the call: nothing is returned.
SliceAbort ==
    /\ Looping
    /\ Match(lexemes[idx]).arm = "panic"
    /\ pc' = "panicked"
    /\ UNCHANGED <<esil, lexemes, idx, tokens>>

\* The iterator is exhausted: tokens is returned.
Return ==
    /\ pc = "loop"
    /\ idx > Len(lexemes)
    /\ pc' = "done"
    /\ UNCHANGED <<esil, lexemes, idx, tokens>>

Next ==
    \/ Begin
    \/ MatchOpcode
    \/ MatchInternal
    \/ MatchHex
    \/ MatchDec
    \/ MatchIdentifier
    \/ SliceAbort
    \/ Return

Spec == Init /\ [][Next]_vars


---------------------------------------------------------------------------
(* Properties of tokenize.                                                 *)

\* The call has returned, and its input was one lexeme.
DoneSingle == pc = "done" /\ Len(lexemes) = 1

\* Commas of a string.
Commas(s) == Cardinality({i \in 1..Len(s) : s[i] = ","})

\* Tokens of a sequence, as a set.
Range(ts) == {ts[i] : i \in 1..Len(ts)}

\* C1: tokenize is total: on every input string the call returns a token
\* sequence and never aborts.
C1_NeverAborts == pc # "panicked"

\* The ten binary in-place register operators: lexeme, plain operator,
\* and the opcode of the plain operator.
InPlaceOps ==
    { <<(<<"+", "=">>), (<<"+">>), EAdd>>, <<(<<"-", "=">>), (<<"-">>), ESub>>,
      <<(<<"*", "=">>), (<<"*">>), EMul>>, <<(<<"/", "=">>), (<<"/">>), EDiv>>,
      <<(<<"%", "=">>), (<<"%">>), EMod>>, <<(<<"&", "=">>), (<<"&">>), EAnd>>,
      <<(<<"|", "=">>), (<<"|">>), EOr>>, <<(<<"^", "=">>), (<<"^">>), EXor>>,
      <<(<<"<", "<", "=">>), (<<"<", "<">>), ELsl>>,
      <<(<<">", ">", "=">>), (<<">", ">">>), ELsr>> }

EaxAddAssign == <<"e", "a", "x", ",", "+", "=">>

\* C2: wherever it stands in the input, each of the ten in-place register
\* operators appends exactly [PCopy(2), OP, PPop(1), EPop, EEq] to the
\* output, OP being the single token the plain operator yields; and
\* "eax,+=" yields [Identifier("eax"), PCopy(2), Add, PPop(1), EPop, EEq].
C2_InPlaceExpansion ==
    [][ /\ \A o \in InPlaceOps :
            /\ (Looping /\ lexemes[idx] = o[1])
                  => /\ tokens' = tokens \o <<PCopy(2), o[3], PPop(1), EPop, EEq>>
                     /\ pc' = "loop"
            /\ (Looping /\ lexemes[idx] = o[2])
                  => tokens' = tokens \o <<o[3]>>
        /\ (pc' = "done" /\ esil' = EaxAddAssign)
              => tokens' = <<EIdentifier(<<"e", "a", "x">>), PCopy(2), EAdd,
                             PPop(1), EPop, EEq>> ]_vars

\* "3,+=,eax" has been tokenized: the expansion stands between the tokens
\* of its neighbours.
C2_Witness ==
    /\ pc = "done"
    /\ esil = <<"3", ",", "+", "=", ",", "e", "a", "x">>
    /\ tokens = <<EConstant(U64(3)), PCopy(2), EAdd, PPop(1), EPop, EEq,
                  EIdentifier(<<"e", "a", "x">>)>>

\* The 1:1 part of the opcode table: lexeme and its one token.
OneToOne ==
    (<<"$">> :> EInterrupt) @@ (<<"=", "=">> :> ECmp) @@ (<<"<">> :> ELt)
 @@ (<<">">> :> EGt) @@ (<<"?", "{">> :> EIf) @@ (<<"<", "<">> :> ELsl)
 @@ (<<">", ">">> :> ELsr) @@ (<<">", ">", ">">> :> ERor)
 @@ (<<"<", "<", "<">> :> ERol) @@ (<<"&">> :> EAnd) @@ (<<"}">> :> ENop)
 @@ (<<"|">> :> EOr) @@ (<<"!">> :> ENeg) @@ (<<"=">> :> EEq)
 @@ (<<"*">> :> EMul) @@ (<<"^">> :> EXor) @@ (<<"+">> :> EAdd)
 @@ (<<"-">> :> ESub) @@ (<<"/">> :> EDiv) @@ (<<"%">> :> EMod)
 @@ (<<"[", "1", "]">> :> EPeek(8)) @@ (<<"[", "2", "]">> :> EPeek(16))
 @@ (<<"[", "4", "]">> :> EPeek(32)) @@ (<<"[", "8", "]">> :> EPeek(64))
 @@ (<<"[", "]">> :> EPeek(64)) @@ (<<"[", "*", "]">> :> EPeek(64))
 @@ (<<"=", "[", "1", "]">> :> EPoke(8)) @@ (<<"=", "[", "2", "]">> :> EPoke(16))
 @@ (<<"=", "[", "4", "]">> :> EPoke(32)) @@ (<<"=", "[", "8", "]">> :> EPoke(64))
 @@ (<<"=", "[", "]">> :> EPoke(64)) @@ (<<"=", "[", "*", "]">> :> EPoke(64))
 @@ (<<"S", "T", "A", "C", "K">> :> EDump) @@ (<<"P", "O", "P">> :> EPop)
 @@ (<<"T", "O", "D", "O">> :> ETodo) @@ (<<"G", "O", "T", "O">> :> EGoto)
 @@ (<<"B", "R", "E", "A", "K">> :> EBreak)
 @@ (<<"C", "L", "E", "A", "R">> :> EClear) @@ (<<"D", "U", "P">> :> EDup)
 @@ (<<"T", "R", "A", "P">> :> ETrap)

\* C4: a one-lexeme input that is a lexeme of the 1:1 part of the table
\* yields exactly the one token of its opcode kind; peek and poke take the
\* width of the byte-count marker, 64 bits for [] and [*].
C4_OneToOne ==
    DoneSingle =>
        /\ esil \in DOMAIN OneToOne => tokens = <<OneToOne[esil]>>
        /\ (esil \in DOMAIN MatchArms /\ Len(tokens) = 1) => esil \in DOMAIN OneToOne

\* "[4]" has been tokenized to a 32-bit peek (and "+" to Add in its run).
C4_Witness == pc = "done" /\ esil = <<"[", "4", "]">> /\ tokens = <<EPeek(32)>>

\* C7: k commas split the input into exactly k + 1 lexemes, which joined
\* by commas are the input again; every empty lexeme appends exactly one
\* Identifier carrying the empty string at its place in the output.
C7_EmptyLexemesKept ==
    [][ /\ pc' # "start"
            => /\ Len(lexemes') = Commas(esil') + 1
               /\ Join(lexemes') = esil'
               /\ \A i \in 1..Len(lexemes') : "," \notin Range(lexemes'[i])
        /\ (Looping /\ lexemes[idx] = <<>>)
            => /\ tokens' = Append(tokens, EIdentifier(<<>>))
               /\ idx' = idx + 1
               /\ pc' = "loop" ]_vars

\* ",eax," has been tokenized: an empty identifier on either side.
C7_Witness ==
    /\ pc = "done"
    /\ esil = <<",", "e", "a", "x", ",">>
    /\ Len(lexemes) = 3
    /\ tokens = <<EIdentifier(<<>>), EIdentifier(<<"e", "a", "x">>),
                  EIdentifier(<<>>)>>

\* The inputs before and after the comma at place i of s.
Before(s, i) == SubSeq(s, 1, i - 1)
After(s, i) == SubSeq(s, i + 1, Len(s))

\* C10: for every way to write the input as a + "," + b, the tokens
\* returned are those of tokenize(a) followed by those of tokenize(b); the
\* call aborts only where one of the two does.
C10_Compositional ==
    \A i \in {j \in 1..Len(esil) : esil[j] = ","} :
        LET a == Tokenize(Before(esil, i))
            b == Tokenize(After(esil, i))
        IN  /\ pc = "done" => a.ok /\ b.ok /\ tokens = a.v \o b.v
            /\ pc = "panicked" => ~a.ok \/ ~b.ok

\* "3,+=,eax" has been tokenized: its tokens are those of "3" and "+=,eax".
C10_Witness ==
    /\ pc = "done"
    /\ esil = <<"3", ",", "+", "=", ",", "e", "a", "x">>
    /\ Tokenize(<<"3">>) = Ok(<<EConstant(U64(3))>>)
    /\ tokens = <<EConstant(U64(3))>> \o Tokenize(<<"+", "=", ",", "e", "a", "x">>).v
    /\ Len(tokens) = 7

\* The byte-count markers of a memory access and their widths in bits.
WidthOf ==
    (<<"[", "]">> :> 64) @@ (<<"[", "1", "]">> :> 8) @@ (<<"[", "2", "]">> :> 16)
 @@ (<<"[", "4", "]">> :> 32) @@ (<<"[", "8", "]">> :> 64)

\* The binary operator families with a memory form in the table, and the
\* opcode of each.
BinaryMemFamilies ==
    (<<"+", "=">> :> EAdd) @@ (<<"-", "=">> :> ESub) @@ (<<"*", "=">> :> EMul)
 @@ (<<"/", "=">> :> EDiv) @@ (<<"%", "=">> :> EMod) @@ (<<"&", "=">> :> EAnd)
 @@ (<<"|", "=">> :> EOr) @@ (<<"^", "=">> :> EXor)

IncFamily == <<"+", "+", "=">>
DecFamily == <<"-", "-", "=">>
ShiftFamilies == {<<"<", "<", "=">>, <<">", ">", "=">>}

\* The ten families the table holds in memory form, and all twelve.
TableMemFamilies == DOMAIN BinaryMemFamilies \cup {IncFamily, DecFamily}
AllMemFamilies == TableMemFamilies \cup ShiftFamilies

\* Tokens of ts of kind k.
OfKind(ts, k) == {i \in 1..Len(ts) : ts[i].k = k}

\* ts holds one peek and one poke, both of w bits, and more than these.
PeekAndPoke(ts, w) ==
    /\ Len(ts) > 1
    /\ \E i \in 1..Len(ts) : ts[i] = EPeek(w)
    /\ \E i \in 1..Len(ts) : ts[i] = EPoke(w)
    /\ Cardinality(OfKind(ts, "EPeek")) = 1
    /\ Cardinality(OfKind(ts, "EPoke")) = 1
    /\ OfKind(ts, "EIdentifier") = {}

\* C3 as claimed: each of the 12 x 5 lexemes family+marker yields an
\* expansion with a peek and a poke of the mapped width, and none falls
\* through to the classifier to become an Identifier.
C3_AllSixtyInTable ==
    DoneSingle =>
        \A f \in AllMemFamilies : \A m \in DOMAIN WidthOf :
            esil = f \o m => PeekAndPoke(tokens, WidthOf[m])

\* C3, amended: each of the 10 x 5 lexemes of the families += -= *= /= %=
\* &= |= ^= ++= --= is an arm of the table and yields an expansion with
\* one peek and one poke of the mapped width; the ten lexemes of <<= and
\* >>= with a marker are no arm, and each yields one Identifier carrying
\* the lexeme.
C3_FiftyInTable ==
    DoneSingle =>
        /\ \A f \in TableMemFamilies : \A m \in DOMAIN WidthOf :
              esil = f \o m =>
                  /\ esil \in DOMAIN MatchArms
                  /\ PeekAndPoke(tokens, WidthOf[m])
        /\ \A f \in ShiftFamilies : \A m \in DOMAIN WidthOf :
              esil = f \o m =>
                  /\ esil \notin DOMAIN MatchArms
                  /\ tokens = <<EIdentifier(esil)>>

\* "-=[4]" has been tokenized, with a 32-bit peek and poke.
C3_Witness ==
    /\ pc = "done"
    /\ esil = <<"-", "=", "[", "4", "]">>
    /\ tokens = <<PCopy(1), EPeek(32), ESub, PPop(1), EPop, EPoke(32)>>

HexChars == {"0", "1", "2", "3", "4", "5", "6", "7", "8", "9",
             "a", "b", "c", "d", "e", "f", "A", "B", "C", "D", "E", "F"}
DecChars == {"0", "1", "2", "3", "4", "5", "6", "7", "8", "9"}

HexDigitOf(c) ==
    CASE c \in {"a", "A"} -> 10 [] c \in {"b", "B"} -> 11 [] c \in {"c", "C"} -> 12
      [] c \in {"d", "D"} -> 13 [] c \in {"e", "E"} -> 14 [] c \in {"f", "F"} -> 15
      [] c = "0" -> 0 [] c = "1" -> 1 [] c = "2" -> 2 [] c = "3" -> 3 [] c = "4" -> 4
      [] c = "5" -> 5 [] c = "6" -> 6 [] c = "7" -> 7 [] c = "8" -> 8 [] c = "9" -> 9

\* A lexeme without its leading "0x", if it has one.
Unprefixed(t) ==
    IF Len(t) >= 2 /\ t[1] = "0" /\ t[2] = "x" THEN SubSeq(t, 3, Len(t)) ELSE t

\* A non-empty lexeme of hexadecimal digits, with or without "0x" ahead.
IsHexLexeme(t) ==
    /\ Unprefixed(t) # <<>>
    /\ \A i \in 1..Len(Unprefixed(t)) : Unprefixed(t)[i] \in HexChars

RECURSIVE StripZeros(_)
StripZeros(d) == IF d # <<>> /\ Head(d) = "0" THEN StripZeros(Tail(d)) ELSE d

\* The digits d read in base 16, positionally: four digits to a limb, most
\* significant limb first, at least four limbs.
HexLimbs(d) ==
    LET s == StripZeros(d)
        n == IF Len(s) <= 16 THEN 4 ELSE (Len(s) + 3) \div 4
        p == [i \in 1..(4 * n) |->
                 IF i <= 4 * n - Len(s) THEN 0 ELSE HexDigitOf(s[i - (4 * n - Len(s))])]
    IN  [j \in 1..n |-> p[4 * j - 3] * 4096 + p[4 * j - 2] * 256
                        + p[4 * j - 1] * 16 + p[4 * j]]

\* The lexeme holds a character that is no hexadecimal digit.
HasNonHexChar(t) == \E i \in 1..Len(t) : t[i] \notin HexChars

Unsigned(t) == IF t # <<>> /\ t[1] = "+" THEN Tail(t) ELSE t

KindToken(c, bit) ==
    CASE c = "$" -> IAddress(bit) [] c = "z" -> IZero(bit)
      [] c = "b" -> IBorrow(bit) [] c = "c" -> ICarry(bit)
      [] c = "p" -> IParity(bit) [] c = "r" -> ISize(bit)
      [] c = "o" -> IOverflow(bit) [] c = "s" -> ISign(bit)

RECURSIVE DecValue(_)
\* Decimal digits read positionally.
DecValue(d) ==
    IF d = <<>> THEN 0 ELSE 10 * DecValue(SubSeq(d, 1, Len(d) - 1)) + HexDigitOf(d[Len(d)])

\* The bit index the characters s from position 2 on stand for: their
\* value when they are an unsigned 8-bit integer, and 0 otherwise.
BitIndexOf(s) ==
    IF /\ Unsigned(s) # <<>>
       /\ \A i \in 1..Len(Unsigned(s)) : Unsigned(s)[i] \in DecChars
       /\ Len(StripZeros(Unsigned(s))) <= 3
       /\ DecValue(StripZeros(Unsigned(s))) <= 255
    THEN DecValue(StripZeros(Unsigned(s)))
    ELSE 0

\* The one token the claim gives a lexeme that starts with '$'.
InternalTokenOf(t) ==
    IF t[2] \in {"$", "z", "b", "c", "p", "r", "o", "s"}
    THEN KindToken(t[2], BitIndexOf(SubSeq(t, 3, Len(t))))
    ELSE EInvalid

\* C6: a lexeme of two or more characters that starts with '$' yields
\* exactly one token: the internal variable of its second character with
\* the bit index of the characters after it (0 when absent or no u8), or
\* Invalid when the second character is no kind; "$z3" yields IZero(3).
C6_InternalVariable ==
    (pc \in {"done", "panicked"} /\ Len(lexemes) = 1 /\ Len(esil) >= 2 /\ esil[1] = "$")
        => pc = "done" /\ tokens = <<InternalTokenOf(esil)>>

\* C6 where the second character is ASCII, which the code does fulfil.
C6_AsciiKind ==
    (pc \in {"done", "panicked"} /\ Len(lexemes) = 1 /\ Len(esil) >= 2 /\ esil[1] = "$"
        /\ Utf8Len(esil[2]) = 1)
        => pc = "done" /\ tokens = <<InternalTokenOf(esil)>>

\* C8 as claimed: "!=" ends in the comparison opcode of "==", which "<="
\* and ">=" use too.
C8_NotEqualCompares ==
    DoneSingle =>
        /\ esil = <<"=", "=">> => tokens = <<ECmp>>
        /\ esil = <<"!", "=">> => tokens = <<PCopy(1), ENeg, ECmp>>
        /\ esil = <<"<", "=">> => tokens = <<PCopy(2), ELt, PPop(2), ECmp, EOr>>
        /\ esil = <<">", "=">> => tokens = <<PCopy(2), EGt, PPop(2), ECmp, EOr>>

\* C8, amended: "!=" expands to exactly [PCopy(1), ENeg, EEq], where EEq
\* is the assignment opcode that "=" yields, not the comparison opcode ECmp
\* that "==" yields and that the "<=" and ">=" expansions use.
C8_NotEqualAssigns ==
    DoneSingle =>
        /\ esil = <<"=", "=">> => tokens = <<ECmp>>
        /\ esil = <<"=">> => tokens = <<EEq>>
        /\ esil = <<"!", "=">> => tokens = <<PCopy(1), ENeg, EEq>> /\ EEq # ECmp
        /\ esil = <<"<", "=">> => tokens = <<PCopy(2), ELt, PPop(2), ECmp, EOr>>
        /\ esil = <<">", "=">> => tokens = <<PCopy(2), EGt, PPop(2), ECmp, EOr>>

\* "!=" has been tokenized.
C8_Witness ==
    pc = "done" /\ esil = <<"!", "=">> /\ tokens = <<PCopy(1), ENeg, EEq>>

\* No pop-duplicate directive stands before the first copy directive.
NoPopBeforeCopy(ts) ==
    \A i \in OfKind(ts, "PPop") : \E j \in OfKind(ts, "PCopy") : j < i

\* The prescribed order of a memory expansion: copy, peek of w bits, the
\* operation op (after Constant(1) when inc), pop-duplicate, and a poke of
\* w bits last.
StepOrder(ts, op, w, inc) ==
    /\ Len(ts) >= 5
    /\ ts[1].k = "PCopy"
    /\ ts[2] = EPeek(w)
    /\ IF inc
       THEN ts[3] = EConstant(<<0, 0, 0, 1>>) /\ ts[4] = op /\ ts[5].k = "PPop"
       ELSE ts[3] = op /\ ts[4].k = "PPop"
    /\ ts[Len(ts)] = EPoke(w)
    /\ NoPopBeforeCopy(ts)

\* C9 as claimed: every memory expansion of the table, those of ++=[w] and
\* --=[w] included, follows the prescribed order.
C9_StepOrderAll ==
    DoneSingle => \A m \in DOMAIN WidthOf :
        /\ \A f \in DOMAIN BinaryMemFamilies :
              esil = f \o m => StepOrder(tokens, BinaryMemFamilies[f], WidthOf[m], FALSE)
        /\ esil = IncFamily \o m => StepOrder(tokens, EAdd, WidthOf[m], TRUE)
        /\ esil = DecFamily \o m => StepOrder(tokens, ESub, WidthOf[m], TRUE)

\* C9, amended: every memory expansion of the table but those of --=[w]
\* follows the prescribed order; --=[w] expands to [Constant(1), PPop(1),
\* PCopy(1), Peek(w), Sub, PPop(1), Poke(w)], where the constant and a
\* pop-duplicate directive come before the copy directive.
C9_StepOrderButDec ==
    DoneSingle => \A m \in DOMAIN WidthOf :
        /\ \A f \in DOMAIN BinaryMemFamilies :
              esil = f \o m => StepOrder(tokens, BinaryMemFamilies[f], WidthOf[m], FALSE)
        /\ esil = IncFamily \o m => StepOrder(tokens, EAdd, WidthOf[m], TRUE)
        /\ esil = DecFamily \o m
              => /\ tokens = <<EConstant(<<0, 0, 0, 1>>), PPop(1), PCopy(1),
                               EPeek(WidthOf[m]), ESub, PPop(1), EPoke(WidthOf[m])>>
                 /\ ~NoPopBeforeCopy(tokens)

\* "++=[2]" has been tokenized in the prescribed order.
C9_Witness ==
    /\ pc = "done"
    /\ esil = <<"+", "+", "=", "[", "2", "]">>
    /\ tokens = <<PCopy(1), EPeek(16), EConstant(<<0, 0, 0, 1>>), EAdd, PPop(1),
                  EPoke(16)>>

=============================================================================
